---- MODULE Spec2Model ----
(***************************************************************************)
(* A model of fetch_nfl_games.py: the Event Normalizer (parse_game), the   *)
(* Selector/Ranker (rank_games), the Detail Enricher                       *)
(* (enrich_featured_game_full), the shaper (slim_game) and the run (main). *)
(*                                                                         *)
(* Python dicts are functions from key strings to values, so a key that is *)
(* absent is absent from the DOMAIN.  Python objects live in `heap`, a     *)
(* sequence of game dicts; a list of games is a sequence of heap indices   *)
(* (references), so that aliasing and in-place mutation are visible.       *)
(***************************************************************************)
EXTENDS Integers, Sequences, FiniteSets, TLC

VARIABLES
    pc,            \* position of the run / of the function under check
    event,         \* parse_game's argument (function specification)
    result,        \* parse_game's outcome (function specification)
    scoreboard,    \* what fetch_scoreboard returned
    heap,          \* the game objects, by reference
    all_games,     \* main's all_games / rank_games' argument and result
    summary,       \* what fetch_game_summary returned / the enricher's argument
    before,        \* the heap as it was when the enricher was called
    fetched_ids,   \* the event ids fetch_game_summary was called with, in order
    enriched_refs, \* the references enrich_featured_game_full was called with
    output_games,  \* main's output_games
    written        \* the documents written to disk, in order

vars == <<pc, event, result, scoreboard, heap, all_games, summary, before,
          fetched_ids, enriched_refs, output_games, written>>

(***************************************************************************)
(* Bounds of the model.                                                    *)
(***************************************************************************)
MaxEvents == 5
MaxGames == 4
MaxPeriods == 6
MaxDate == 2

(***************************************************************************)
(* Program constants.                                                      *)
(***************************************************************************)
OvertimeIndex == 4
MaxOutputGames == 4
MissingRankKey == 999

(***************************************************************************)
(* Dict helpers.                                                           *)
(***************************************************************************)
Has(d, k) == k \in DOMAIN d
Put(d, k, v) == [x \in (DOMAIN d) \cup {k} |-> IF x = k THEN v ELSE d[x]]
Pop(d, k) == [x \in (DOMAIN d) \ {k} |-> d[x]]
Range(s) == {s[i] : i \in DOMAIN s}
Min(a, b) == IF a <= b THEN a ELSE b

(***************************************************************************)
(* Upstream values.  A score as ESPN may supply it: the key absent, null,  *)
(* a string or a number.                                                   *)
(***************************************************************************)
ScoreAbsent == [kind |-> "absent", text |-> "", num |-> 0]
ScoreNull == [kind |-> "null", text |-> "", num |-> 0]
ScoreStr(s) == [kind |-> "str", text |-> s, num |-> 0]
ScoreInt(n) == [kind |-> "int", text |-> "", num |-> n]
ScoreVals == {ScoreAbsent, ScoreNull, ScoreStr(""), ScoreStr("7"), ScoreInt(7), ScoreStr("abc")}

\* The mapping nodes of an event: the key absent, null, or a mapping.
Nodes == {"absent", "null", "present"}
\* competitions: the key absent, an empty list, null, or a one-element list.
CompNodes == {"absent", "empty", "null", "present"}
\* competition.status: absent, null, a mapping without type.state, a
\* mapping whose type.state is null, or one whose type.state is the given code.
StatusNodes ==
    {"absent", "null", "nostate", "nullstate", "pre", "in", "post", "halftime"}
GeoLists == {<<>>, <<"FOX">>, <<"FOX", "FOX", "ESPN">>, <<"", "NFL+">>}
EventIds == {"", "401", "402"}

(***************************************************************************)
(* The event sets the functions are checked on.  FaultEvents vary every    *)
(* optional node and both scores; LineEvents vary the linescores and the   *)
(* broadcasts; BareEvents have no usable competitions entry.               *)
(***************************************************************************)
FaultEvents ==
    [id : {"401"}, date : {1}, comps : {"present"}, status : StatusNodes,
     hscore : ScoreVals, ascore : ScoreVals, hteam : Nodes, venue : Nodes,
     hlen : {0}, alen : {0}, valueless : {FALSE}, situation : BOOLEAN,
     odds : BOOLEAN, geo : {<<"FOX">>}]

LineEvents ==
    [id : {"401"}, date : {1}, comps : {"present"}, status : {"in", "post"},
     hscore : {ScoreInt(7)}, ascore : {ScoreStr("7")}, hteam : {"present"},
     venue : {"present"}, hlen : 0..MaxPeriods, alen : 0..MaxPeriods,
     valueless : BOOLEAN, situation : {TRUE}, odds : {FALSE}, geo : GeoLists]

BareEvents ==
    [id : EventIds, date : 0..MaxDate, comps : CompNodes \ {"present"},
     status : {"absent"}, hscore : {ScoreAbsent}, ascore : {ScoreAbsent},
     hteam : {"absent"}, venue : {"absent"}, hlen : {0}, alen : {0},
     valueless : {FALSE}, situation : {FALSE}, odds : {FALSE}, geo : {<<>>}]

ParseEvents == FaultEvents \cup LineEvents \cup BareEvents

(***************************************************************************)
(* Field extraction: dict.get with a default, `x or 0`, int(x).            *)
(***************************************************************************)
\* data.get('score', 0)
GetScore(v) == IF v.kind = "absent" THEN ScoreInt(0) ELSE v

\* Python truthiness of a score value
Truthy(v) ==
    CASE v.kind = "str" -> v.text # ""
      [] v.kind = "int" -> v.num # 0
      [] OTHER -> FALSE

\* x or 0
OrZero(v) == IF Truthy(v) THEN v ELSE ScoreInt(0)

\* the strings int() accepts, with their values
Decimal == [s \in {"7"} |-> 7]

\* int(x) raises ValueError on a non-numeric string, TypeError on None
IntRaises(v) ==
    \/ v.kind = "null"
    \/ v.kind = "absent"
    \/ (v.kind = "str" /\ v.text \notin DOMAIN Decimal)

IntOf(v) == IF v.kind = "int" THEN v.num ELSE Decimal[v.text]

\* int(data.get('score', 0) or 0)
ScoreRaises(v) == IntRaises(OrZero(GetScore(v)))
ScoreOf(v) == IntOf(OrZero(GetScore(v)))

(***************************************************************************)
(* parse_status                                                            *)
(***************************************************************************)
\* status_data.get('type', {}).get('state', 'pre')
StateCode(node) == IF node \in {"absent", "nostate"} THEN "pre" ELSE node

\* parse_status without the 'pre' default of the state lookup
parse_statusNoDefault(node) ==
    IF node = "pre" THEN "Scheduled"
    ELSE IF node = "in" THEN "In Progress"
    ELSE IF node = "post" THEN "Final"
    ELSE "Unknown"

parse_status(node) ==
    LET state == StateCode(node)
    IN  IF state = "pre" THEN "Scheduled"
        ELSE IF state = "in" THEN "In Progress"
        ELSE IF state = "post" THEN "Final"
        ELSE "Unknown"

Statuses == {"Scheduled", "In Progress", "Final", "Unknown"}

(***************************************************************************)
(* parse_broadcasters, parse_odds, parse_situation_from_scoreboard         *)
(***************************************************************************)
NETWORK_LOGOS(name) ==
    CASE name = "FOX" -> "Fox_Broadcasting_Company_logo.svg"
      [] name = "ESPN" -> "ESPN_wordmark.svg"
      [] OTHER -> ""

RECURSIVE BroadcastersFrom(_, _, _)
BroadcastersFrom(geo, i, seen) ==
    IF i > Len(geo) THEN <<>>
    ELSE IF geo[i] # "" /\ geo[i] \notin seen
         THEN <<[name |-> geo[i], type |-> "TV", logo |-> NETWORK_LOGOS(geo[i])]>>
              \o BroadcastersFrom(geo, i + 1, seen \cup {geo[i]})
         ELSE BroadcastersFrom(geo, i + 1, seen)

parse_broadcasters(geo) == BroadcastersFrom(geo, 1, {})

parse_odds(present) == IF present THEN "scoreboard odds" ELSE "None"

parse_situation_from_scoreboard(present) ==
    IF present THEN "scoreboard situation" ELSE "None"

(***************************************************************************)
(* parse_game                                                              *)
(***************************************************************************)
\* event_data.get('competitions', [{}])[0]: an absent key gives the empty
\* competition, in which every node is absent.
Competition(e) ==
    IF e.comps = "present" THEN e
    ELSE [e EXCEPT !.status = "absent", !.hscore = ScoreAbsent, !.ascore = ScoreAbsent,
                   !.hteam = "absent", !.venue = "absent", !.hlen = 0, !.alen = 0,
                   !.valueless = FALSE, !.situation = FALSE, !.odds = FALSE,
                   !.geo = <<>>]

\* The statements of parse_game that raise: [0] of an empty list or of None,
\* .get on a null team, status or venue, int() of a non-numeric score.
ParseRaises(e) ==
    \/ e.comps \in {"empty", "null"}
    \/ Competition(e).hteam = "null"
    \/ ScoreRaises(Competition(e).hscore)
    \/ ScoreRaises(Competition(e).ascore)
    \/ Competition(e).status = "null"
    \/ Competition(e).venue = "null"

\* the linescores of the two competitors: entry i of the home side lacks
\* its 'value' when `valueless` and i = 1
HomeLinescores(c) ==
    [i \in 1..c.hlen |-> IF c.valueless /\ i = 1 THEN ScoreAbsent ELSE ScoreInt(3 + i)]
AwayLinescores(c) == [i \in 1..c.alen |-> ScoreInt(i)]

\* Periods calling a period Overtime only from the index after OvertimeIndex
PeriodsOvertimeLate(c) ==
    [k \in 1..Min(c.hlen, c.alen) |->
        LET i == k - 1
        IN  [number |-> i + 1,
             type |-> IF i > OvertimeIndex THEN "Overtime" ELSE "Regulation",
             away |-> [points |-> IntOf(GetScore(AwayLinescores(c)[k]))],
             home |-> [points |-> IntOf(GetScore(HomeLinescores(c)[k]))]]]

\* for i, (h, a) in enumerate(zip(home_linescores, away_linescores))
Periods(c) ==
    [k \in 1..Min(c.hlen, c.alen) |->
        LET i == k - 1
        IN  [number |-> i + 1,
             type |-> IF i >= OvertimeIndex THEN "Overtime" ELSE "Regulation",
             away |-> [points |-> IntOf(GetScore(AwayLinescores(c)[k]))],
             home |-> [points |-> IntOf(GetScore(HomeLinescores(c)[k]))]]]

TeamDict(node, side, score) ==
    [id |-> IF node = "present" THEN side ELSE "",
     name |-> IF node = "present" THEN "Full Name" ELSE "",
     abbreviation |-> IF node = "present" THEN "ABC" ELSE "",
     short_name |-> IF node = "present" THEN "Short" ELSE "",
     logo |-> IF node = "present" THEN "logo.png" ELSE "",
     record |-> IF node = "present" THEN "10-7" ELSE "",
     score |-> score]

VenueDict(node) ==
    [name |-> IF node = "present" THEN "Lambeau Field" ELSE "",
     city |-> IF node = "present" THEN "Green Bay" ELSE "",
     state |-> IF node = "present" THEN "WI" ELSE "",
     indoor |-> FALSE]

\* convert_to_pacific: date 0 stands for the empty string, which
\* fromisoformat rejects, so the raw string is returned.
convert_to_pacific(d) == IF d = 0 THEN <<"raw", d>> ELSE <<"Pacific", d>>

GameOf(e) ==
    LET c == Competition(e)
        status == parse_status(c.status)
        home_score == ScoreOf(c.hscore)
        away_score == ScoreOf(c.ascore)
    IN  [id |-> e.id,
         status |-> status,
         start_time_utc |-> e.date,
         start_time_pacific |-> convert_to_pacific(e.date),
         name |-> "Away at Home",
         away_team |-> TeamDict("present", "away", away_score),
         home_team |-> TeamDict(c.hteam, "home", home_score),
         venue |-> VenueDict(c.venue),
         broadcasters |-> parse_broadcasters(c.geo),
         scores |-> [periods |-> Periods(c),
                     total |-> [away |-> away_score, home |-> home_score]],
         odds |-> parse_odds(c.odds),
         weather |-> "None",
         clock |-> IF c.status \in {"absent", "null"} THEN "0:00" ELSE "12:34",
         period |-> IF c.status \in {"absent", "null"} THEN 0 ELSE 2,
         leaders |-> "scoreboard leaders",
         situation |-> IF status = "In Progress"
                       THEN parse_situation_from_scoreboard(c.situation)
                       ELSE "None"]

Raised == [raised |-> TRUE, game |-> [error |-> "exception"]]

parse_game(e) == IF ParseRaises(e) THEN Raised ELSE [raised |-> FALSE, game |-> GameOf(e)]

(***************************************************************************)
(* Idle values of the variables a specification does not use.              *)
(***************************************************************************)
NoEvent == [id |-> "none"]
NoResult == [raised |-> FALSE, game |-> [error |-> "not called"]]
NoScoreboard == [kind |-> "not fetched", events |-> <<>>]
NoSummary == [kind |-> "not fetched", situation |-> FALSE, leaders |-> FALSE,
              header |-> FALSE, odds |-> FALSE, drives |-> FALSE]

(***************************************************************************)
(* parse_game as a function: every event of ParseEvents, parsed once.      *)
(***************************************************************************)
InitParse ==
    /\ pc = "parse_in"
    /\ event \in ParseEvents
    /\ result = NoResult
    /\ scoreboard = NoScoreboard
    /\ heap = <<>>
    /\ all_games = <<>>
    /\ summary = NoSummary
    /\ before = <<>>
    /\ fetched_ids = <<>>
    /\ enriched_refs = <<>>
    /\ output_games = <<>>
    /\ written = <<>>

ParseStep ==
    /\ pc = "parse_in"
    /\ result' = parse_game(event)
    /\ pc' = "parsed"
    /\ UNCHANGED <<event, scoreboard, heap, all_games, summary, before,
                   fetched_ids, enriched_refs, output_games, written>>

NextParse == ParseStep

SpecParse == InitParse /\ [][NextParse]_vars

(***************************************************************************)
(* rank_games                                                              *)
(***************************************************************************)
\* [g for g in games if g['status'] == status]
Tier(h, games, status) == SelectSeq(games, LAMBDA r : h[r].status = status)

\* list.remove(x) removes the first element that equals x; two dicts are
\* equal when they hold the same keys and values, whichever object they are.
Remove(h, tier, x) ==
    LET j == CHOOSE j \in 1..Len(tier) :
                 /\ h[tier[j]] = h[x]
                 /\ \A i \in 1..(j - 1) : h[tier[i]] # h[x]
    IN  [i \in 1..(Len(tier) - 1) |-> IF i < j THEN tier[i] ELSE tier[i + 1]]

\* featured = random.choice(tier); tier.remove(featured); [featured] + tier
FeaturedFirst(h, tier, c) == <<tier[c]>> \o Remove(h, tier, tier[c])

\* list.sort(key=...) is stable: an element goes after the elements with a
\* smaller key and after the earlier elements with an equal key.
StableSort(s, keys) ==
    LET pos(i) == 1 + Cardinality({j \in 1..Len(s) : keys[j] < keys[i]})
                    + Cardinality({j \in 1..(i - 1) : keys[j] = keys[i]})
    IN  [p \in 1..Len(s) |-> s[CHOOSE i \in 1..Len(s) : pos(i) = p]]

\* SortScheduled with the sort left out
SortScheduledOmitted(h, scheduled) == scheduled

\* scheduled.sort(key=lambda g: g['start_time_utc'])
SortScheduled(h, scheduled) ==
    StableSort(scheduled, [i \in 1..Len(scheduled) |-> h[scheduled[i]].start_time_utc])

\* Concat with the Final tier put before the In Progress tier
ConcatFinalFirst(in_progress, final, scheduled) == final \o in_progress \o scheduled

\* ranked = in_progress + final + scheduled
Concat(in_progress, final, scheduled) == in_progress \o final \o scheduled

\* the tier random.choice draws from: In Progress if it has a member,
\* otherwise Final
TopTier(h, games) ==
    IF Tier(h, games, "In Progress") # <<>> THEN Tier(h, games, "In Progress")
    ELSE Tier(h, games, "Final")

\* Choices with the first member of the tier always taken
ChoicesFirstOnly(h, games) == IF TopTier(h, games) = <<>> THEN {0} ELSE {1}

\* the outcomes of random.choice, as indices into the tier; 0 when no choice
\* is made
Choices(h, games) ==
    IF TopTier(h, games) = <<>> THEN {0} ELSE 1..Len(TopTier(h, games))

Ranked(h, games, c) ==
    LET in_progress == Tier(h, games, "In Progress")
        final == Tier(h, games, "Final")
        scheduled == Tier(h, games, "Scheduled")
    IN  IF in_progress # <<>>
        THEN Concat(FeaturedFirst(h, in_progress, c), final, SortScheduled(h, scheduled))
        ELSE IF final # <<>>
        THEN Concat(in_progress, FeaturedFirst(h, final, c), SortScheduled(h, scheduled))
        ELSE Concat(in_progress, final, SortScheduled(h, scheduled))

\* for i, game in enumerate(ranked): game['display_rank'] = i + 1
\* An object that is in the list twice keeps the rank written last.
AssignRanks(h, ranked) ==
    [r \in DOMAIN h |->
        IF r \in Range(ranked)
        THEN Put(h[r], "display_rank",
                 CHOOSE i \in 1..Len(ranked) :
                     ranked[i] = r /\ \A j \in (i + 1)..Len(ranked) : ranked[j] # r)
        ELSE h[r]]

rank_games(h, games, c) ==
    [heap |-> AssignRanks(h, Ranked(h, games, c)), ranked |-> Ranked(h, games, c)]

(***************************************************************************)
(* rank_games as a function: every list of at most MaxGames normalized     *)
(* games, ranked once with every outcome of random.choice.                 *)
(***************************************************************************)
RankEvents ==
    [id : {"401"}, date : 1..MaxDate, comps : {"present"},
     status : {"pre", "in", "post", "halftime"},
     hscore : {ScoreInt(7)}, ascore : {ScoreStr("7")}, hteam : {"present"},
     venue : {"present"}, hlen : {0}, alen : {0}, valueless : {FALSE},
     situation : {FALSE}, odds : {FALSE}, geo : {<<"FOX">>}]

RankGameValues == {GameOf(e) : e \in RankEvents}

InitRank ==
    /\ pc = "rank_in"
    /\ \E n \in 0..MaxGames :
          /\ heap \in [1..n -> RankGameValues]
          /\ all_games = [i \in 1..n |-> i]
    /\ event = NoEvent
    /\ result = NoResult
    /\ scoreboard = NoScoreboard
    /\ summary = NoSummary
    /\ before = <<>>
    /\ fetched_ids = <<>>
    /\ enriched_refs = <<>>
    /\ output_games = <<>>
    /\ written = <<>>

RankStep ==
    /\ pc = "rank_in"
    /\ \E c \in Choices(heap, all_games) :
          /\ heap' = rank_games(heap, all_games, c).heap
          /\ all_games' = rank_games(heap, all_games, c).ranked
    /\ pc' = "ranked"
    /\ UNCHANGED <<event, result, scoreboard, summary, before, fetched_ids,
                   enriched_refs, output_games, written>>

NextRank == RankStep

SpecRank == InitRank /\ [][NextRank]_vars

(***************************************************************************)
(* The summary record: null (the fetch failed), the empty mapping, or a    *)
(* non-empty mapping in which each optional section is present or absent.  *)
(***************************************************************************)
SummaryDocs ==
    [kind : {"doc"}, situation : BOOLEAN, leaders : BOOLEAN, header : BOOLEAN,
     odds : BOOLEAN, drives : BOOLEAN]

NullSummary == [kind |-> "null", situation |-> FALSE, leaders |-> FALSE,
                header |-> FALSE, odds |-> FALSE, drives |-> FALSE]
EmptySummary == [kind |-> "empty", situation |-> FALSE, leaders |-> FALSE,
                 header |-> FALSE, odds |-> FALSE, drives |-> FALSE]

Summaries == {NullSummary, EmptySummary} \cup SummaryDocs

\* SummaryTruthy taking every summary, None included, as usable
SummaryTruthyAlways(s) == TRUE

\* Python truthiness of the summary: None and {} are falsy
SummaryTruthy(s) == s.kind = "doc"

(***************************************************************************)
(* enrich_featured_game_full                                               *)
(***************************************************************************)
parse_full_situation(present) == IF present THEN "summary situation" ELSE "None"

\* parse_drives: None when the summary has no drives
parse_drives(present) == IF present THEN "summary drives" ELSE "None"

\* Enrich storing the summary situation even when it is None
EnrichSituationAlways(game, s) ==
    LET g1 == Put(game, "team_stats", "summary team stats")
        g2 == Put(g1, "player_stats", "summary player stats")
        g3 == Put(g2, "scoring_plays", "summary scoring plays")
        g4 == Put(g3, "drives", parse_drives(s.drives))
        summary_situation == parse_full_situation(s.situation)
        g5 == Put(g4, "situation", summary_situation)
        g6 == IF s.leaders THEN Put(g5, "leaders", "summary leaders") ELSE g5
        g7 == Put(g6, "game_info", "summary game info")
        g8 == Put(g7, "news", "summary news")
        g9 == Put(g8, "win_probability", "summary win probability")
        g10 == Put(g9, "predictor", "summary predictor")
        g11 == Put(g10, "standings", "summary standings")
        g12 == Put(g11, "pickcenter", "summary pickcenter")
        g13 == Put(g12, "against_the_spread", "summary against the spread")
        g14 == Put(g13, "odds", IF s.odds THEN "summary odds" ELSE "[]")
        g15 == IF s.header THEN Put(g14, "header", "summary header") ELSE g14
    IN  g15

\* the assignments of lines 750-823, in order
Enrich(game, s) ==
    LET g1 == Put(game, "team_stats", "summary team stats")
        g2 == Put(g1, "player_stats", "summary player stats")
        g3 == Put(g2, "scoring_plays", "summary scoring plays")
        g4 == Put(g3, "drives", parse_drives(s.drives))
        summary_situation == parse_full_situation(s.situation)
        g5 == IF summary_situation # "None" THEN Put(g4, "situation", summary_situation)
              ELSE g4
        g6 == IF s.leaders THEN Put(g5, "leaders", "summary leaders") ELSE g5
        g7 == Put(g6, "game_info", "summary game info")
        g8 == Put(g7, "news", "summary news")
        g9 == Put(g8, "win_probability", "summary win probability")
        g10 == Put(g9, "predictor", "summary predictor")
        g11 == Put(g10, "standings", "summary standings")
        g12 == Put(g11, "pickcenter", "summary pickcenter")
        g13 == Put(g12, "against_the_spread", "summary against the spread")
        g14 == Put(g13, "odds", IF s.odds THEN "summary odds" ELSE "[]")
        g15 == IF s.header THEN Put(g14, "header", "summary header") ELSE g14
    IN  g15

\* enrich_featured_game_full returning early on None only
EnrichUnlessNone(game, s) == IF s.kind = "null" THEN game ELSE Enrich(game, s)

enrich_featured_game_full(game, s) ==
    IF ~SummaryTruthy(s) THEN game ELSE Enrich(game, s)

EnrichmentKeys ==
    {"team_stats", "player_stats", "scoring_plays", "drives", "game_info", "news",
     "win_probability", "predictor", "standings", "pickcenter",
     "against_the_spread", "header"}

(***************************************************************************)
(* enrich_featured_game_full as a function: every normalized game of       *)
(* EnrichEvents with every summary of Summaries.                           *)
(***************************************************************************)
EnrichEvents ==
    [id : {"401"}, date : {1}, comps : {"present"},
     status : {"pre", "in", "post", "halftime"},
     hscore : {ScoreInt(7)}, ascore : {ScoreStr("7")}, hteam : {"present"},
     venue : {"present"}, hlen : {0, 2}, alen : {2}, valueless : {FALSE},
     situation : BOOLEAN, odds : BOOLEAN, geo : {<<"FOX">>}]

InitEnrich ==
    /\ pc = "enrich_in"
    /\ \E e \in EnrichEvents : heap = <<GameOf(e)>>
    /\ all_games = <<1>>
    /\ summary \in Summaries
    /\ before = heap
    /\ event = NoEvent
    /\ result = NoResult
    /\ scoreboard = NoScoreboard
    /\ fetched_ids = <<>>
    /\ enriched_refs = <<>>
    /\ output_games = <<>>
    /\ written = <<>>

EnrichStep ==
    /\ pc = "enrich_in"
    /\ heap' = [heap EXCEPT ![1] = enrich_featured_game_full(heap[1], summary)]
    /\ enriched_refs' = Append(enriched_refs, 1)
    /\ pc' = "enriched"
    /\ UNCHANGED <<event, result, scoreboard, all_games, summary, before,
                   fetched_ids, output_games, written>>

NextEnrich == EnrichStep

SpecEnrich == InitEnrich /\ [][NextEnrich]_vars

(***************************************************************************)
(* slim_game                                                               *)
(***************************************************************************)
\* slim_team that also keeps the team id
slim_teamWithId(team) ==
    [abbreviation |-> team.abbreviation, short_name |-> team.short_name,
     record |-> team.record, score |-> team.score, id |-> team.id]

slim_team(team) ==
    [abbreviation |-> team.abbreviation, short_name |-> team.short_name,
     record |-> team.record, score |-> team.score]

slim_periods(periods) ==
    [i \in 1..Len(periods) |->
        [number |-> periods[i].number, away |-> periods[i].away,
         home |-> periods[i].home]]

slim_broadcasters(broadcasters) ==
    IF broadcasters = <<>> THEN <<>> ELSE <<[name |-> broadcasters[1].name]>>

\* is_featured: a copy, without venue, weather and attendance when the
\* game has a game_info
SlimFeatured(game) ==
    IF Has(game, "game_info")
    THEN Pop(Pop(Pop(game, "venue"), "weather"), "attendance")
    ELSE game

SlimOther(game) ==
    LET slim == [status |-> game.status,
                 start_time_pacific |-> game.start_time_pacific,
                 away_team |-> slim_team(game.away_team),
                 home_team |-> slim_team(game.home_team),
                 scores |-> [periods |-> slim_periods(game.scores.periods),
                             total |-> game.scores.total],
                 clock |-> game.clock,
                 period |-> game.period,
                 display_rank |-> IF Has(game, "display_rank")
                                  THEN game.display_rank ELSE 0]
    IN  IF game.status \in {"Scheduled", "In Progress"}
        THEN Put(Put(slim, "venue", [name |-> game.venue.name,
                                      city |-> game.venue.city,
                                      state |-> game.venue.state]),
                 "broadcasters", slim_broadcasters(game.broadcasters))
        ELSE slim

slim_game(game, is_featured) ==
    IF is_featured THEN SlimFeatured(game) ELSE SlimOther(game)

(***************************************************************************)
(* slim_game as a function: every normalized game of SlimEvents, with or   *)
(* without a display_rank, enriched or not, in either tier.                *)
(***************************************************************************)
SlimEvents ==
    [id : {"401"}, date : {1}, comps : {"present"},
     status : {"pre", "in", "post", "halftime"},
     hscore : {ScoreInt(7)}, ascore : {ScoreStr("7")}, hteam : {"present"},
     venue : {"present"}, hlen : {0, 2}, alen : {2}, valueless : {FALSE},
     situation : BOOLEAN, odds : {TRUE}, geo : GeoLists]

SlimSummary == [kind |-> "doc", situation |-> TRUE, leaders |-> TRUE,
                header |-> TRUE, odds |-> TRUE, drives |-> TRUE]

InitSlim ==
    /\ pc = "slim_in"
    /\ summary \in {NullSummary, SlimSummary}
    /\ \E e \in SlimEvents, rank \in 0..MaxGames :
          LET game == GameOf(e)
              ranked == IF rank = 0 THEN game ELSE Put(game, "display_rank", rank)
          IN  heap = <<enrich_featured_game_full(ranked, summary)>>
    /\ all_games = <<1>>
    /\ before = heap
    /\ event = NoEvent
    /\ result = NoResult
    /\ scoreboard = NoScoreboard
    /\ fetched_ids = <<>>
    /\ enriched_refs = <<>>
    /\ output_games = <<>>
    /\ written = <<>>

\* slim_game(game, is_featured): builds a new dict and assigns nothing
\* into game
SlimStep ==
    /\ pc = "slim_in"
    /\ \E is_featured \in BOOLEAN :
          /\ output_games' = <<slim_game(heap[1], is_featured)>>
          /\ pc' = IF is_featured THEN "slimmed_featured" ELSE "slimmed"
    /\ UNCHANGED <<event, result, scoreboard, heap, all_games, summary, before,
                   fetched_ids, enriched_refs, written>>

NextSlim == SlimStep

SpecSlim == InitSlim /\ [][NextSlim]_vars

(***************************************************************************)
(* main: one run.                                                          *)
(***************************************************************************)
\* The events a run's scoreboard is drawn from: In Progress and Final
\* events under two ids, a Scheduled event, an event with an unrecognized
\* state code, and an event whose competitions list is empty.
RunEvents ==
    [id : {"401", "402"}, date : {1}, comps : {"present"}, status : {"in"},
     hscore : {ScoreInt(7)}, ascore : {ScoreStr("7")}, hteam : {"present"},
     venue : {"present"}, hlen : {2}, alen : {2}, valueless : {FALSE},
     situation : {TRUE}, odds : {TRUE}, geo : {<<"FOX">>}]
    \cup
    [id : {"403"}, date : {2}, comps : {"present"}, status : {"pre", "post", "halftime"},
     hscore : {ScoreInt(7)}, ascore : {ScoreStr("7")}, hteam : {"present"},
     venue : {"present"}, hlen : {0}, alen : {0}, valueless : {FALSE},
     situation : {TRUE}, odds : {FALSE}, geo : {<<"FOX">>}]
    \cup
    [id : {"404"}, date : {1}, comps : {"empty"},
     status : {"absent"}, hscore : {ScoreAbsent}, ascore : {ScoreAbsent},
     hteam : {"absent"}, venue : {"absent"}, hlen : {0}, alen : {0},
     valueless : {FALSE}, situation : {FALSE}, odds : {FALSE}, geo : {<<>>}]

EventLists == UNION {[1..n -> RunEvents] : n \in 0..MaxEvents}

\* fetch_scoreboard: None on any failure, otherwise the decoded document
Scoreboards ==
    {[kind |-> "none", events |-> <<>>], [kind |-> "empty", events |-> <<>>]}
    \cup {[kind |-> "doc", events |-> es] : es \in EventLists}

\* the summaries a run's fetch_game_summary may return
RunSummaries ==
    {NullSummary, EmptySummary}
    \cup [kind : {"doc"}, situation : BOOLEAN, leaders : {FALSE}, header : {FALSE},
          odds : {TRUE}, drives : BOOLEAN]

Init ==
    /\ pc = "start"
    /\ event = NoEvent
    /\ result = NoResult
    /\ scoreboard = NoScoreboard
    /\ heap = <<>>
    /\ all_games = <<>>
    /\ summary = NoSummary
    /\ before = <<>>
    /\ fetched_ids = <<>>
    /\ enriched_refs = <<>>
    /\ output_games = <<>>
    /\ written = <<>>

\* AfterFetch without the test of the scoreboard
AfterFetchUnchecked(sb) == "parse"

\* if not scoreboard: return  (None and {} are falsy)
AfterFetch(sb) == IF sb.kind = "doc" THEN "parse" ELSE "aborted"

\* scoreboard = fetch_scoreboard(); if not scoreboard: return
FetchScoreboard ==
    /\ pc = "start"
    /\ scoreboard' \in Scoreboards
    /\ pc' = AfterFetch(scoreboard')
    /\ UNCHANGED <<event, result, heap, all_games, summary, before, fetched_ids,
                   enriched_refs, output_games, written>>

\* for event in events: all_games.append(parse_game(event)); an exception
\* of parse_game is not caught and ends the run
ParseAll ==
    /\ pc = "parse"
    /\ LET events == scoreboard.events
           bad == {i \in DOMAIN events : ParseRaises(events[i])}
           n == IF bad = {} THEN Len(events)
                ELSE (CHOOSE i \in bad : \A j \in bad : i <= j) - 1
       IN  /\ heap' = [i \in 1..n |-> GameOf(events[i])]
           /\ all_games' = [i \in 1..n |-> i]
           /\ pc' = IF bad = {} THEN "rank" ELSE "crashed"
    /\ UNCHANGED <<event, result, scoreboard, summary, before, fetched_ids,
                   enriched_refs, output_games, written>>

\* all_games = rank_games(all_games)
Rank ==
    /\ pc = "rank"
    /\ \E c \in Choices(heap, all_games) :
          /\ heap' = rank_games(heap, all_games, c).heap
          /\ all_games' = rank_games(heap, all_games, c).ranked
    /\ pc' = "sort"
    /\ UNCHANGED <<event, result, scoreboard, summary, before, fetched_ids,
                   enriched_refs, output_games, written>>

\* all_games.sort(key=lambda g: g.get('display_rank', 999))
SortByRank ==
    /\ pc = "sort"
    /\ all_games' = StableSort(all_games,
            [i \in 1..Len(all_games) |->
                IF Has(heap[all_games[i]], "display_rank")
                THEN heap[all_games[i]].display_rank ELSE MissingRankKey])
    /\ pc' = "fetch_summary"
    /\ UNCHANGED <<event, result, scoreboard, heap, summary, before, fetched_ids,
                   enriched_refs, output_games, written>>

\* if all_games: summary = fetch_game_summary(all_games[0]['id'])
FetchSummary ==
    /\ pc = "fetch_summary"
    /\ IF all_games = <<>>
       THEN /\ pc' = "shape"
            /\ UNCHANGED <<summary, fetched_ids>>
       ELSE /\ summary' \in RunSummaries
            /\ fetched_ids' = Append(fetched_ids, heap[all_games[1]].id)
            /\ pc' = "enrich"
    /\ UNCHANGED <<event, result, scoreboard, heap, all_games, before,
                   enriched_refs, output_games, written>>

\* if summary: enrich_featured_game_full(rank1_game, summary), then the
\* report lines; rank1_game.get('drives', {}).get('previous') raises when
\* the enricher stored None under 'drives', and nothing catches it.
EnrichRankOne ==
    /\ pc = "enrich"
    /\ IF SummaryTruthy(summary)
       THEN /\ before' = heap
            /\ heap' = [heap EXCEPT ![all_games[1]] =
                            enrich_featured_game_full(heap[all_games[1]], summary)]
            /\ enriched_refs' = Append(enriched_refs, all_games[1])
            /\ pc' = IF heap'[all_games[1]].drives = "None" THEN "crashed" ELSE "shape"
       ELSE /\ UNCHANGED <<before, heap, enriched_refs>>
            /\ pc' = "shape"
    /\ UNCHANGED <<event, result, scoreboard, all_games, summary, fetched_ids,
                   output_games, written>>

\* for i, game in enumerate(all_games[:4]): slim_game(game, is_featured=(i == 0))
Shape ==
    /\ pc = "shape"
    /\ output_games' = [k \in 1..Min(Len(all_games), MaxOutputGames) |->
                            slim_game(heap[all_games[k]], k - 1 = 0)]
    /\ pc' = "write"
    /\ UNCHANGED <<event, result, scoreboard, heap, all_games, summary, before,
                   fetched_ids, enriched_refs, written>>

\* json.dump to docs/nfl_games_full.json, then to docs/nfl_games.json
Write ==
    /\ pc = "write"
    /\ written' = written
            \o <<[file |-> "docs/nfl_games_full.json", games |-> output_games],
                 [file |-> "docs/nfl_games.json", games |-> output_games]>>
    /\ pc' = "done"
    /\ UNCHANGED <<event, result, scoreboard, heap, all_games, summary, before,
                   fetched_ids, enriched_refs, output_games>>

Next ==
    \/ FetchScoreboard
    \/ ParseAll
    \/ Rank
    \/ SortByRank
    \/ FetchSummary
    \/ EnrichRankOne
    \/ Shape
    \/ Write

Spec == Init /\ [][Next]_vars

(***************************************************************************)
(* Claims about rank_games (under SpecRank).  The input list is            *)
(* <<1, ..., Len(heap)>>: reference r is the r-th game of the input.       *)
(***************************************************************************)
HasRank(h, r, n) == Has(h[r], "display_rank") /\ h[r].display_rank = n
InputHas(status) == \E r \in DOMAIN heap : heap[r].status = status
TierIndex(status) ==
    CASE status = "In Progress" -> 1
      [] status = "Final" -> 2
      [] status = "Scheduled" -> 3
      [] OTHER -> 4

\* C1: for every non-empty list of normalized games (statuses Scheduled,
\* In Progress, Final, Unknown) given to rank_games, exactly one game has
\* display_rank 1 afterwards.
C1_ExactlyOneRankOne ==
    (pc = "ranked" /\ Len(heap) > 0)
        => Cardinality({r \in DOMAIN heap : HasRank(heap, r, 1)}) = 1

\* C2: rank_games ranks every game of its input: the output holds each input
\* game exactly once and the ranks are a permutation of 1..N.
C2_RanksArePermutation ==
    pc = "ranked" =>
        /\ Len(all_games) = Len(heap)
        /\ \A r \in DOMAIN heap :
              Cardinality({i \in DOMAIN all_games : all_games[i] = r}) = 1
        /\ \A n \in 1..Len(heap) :
              Cardinality({r \in DOMAIN heap : HasRank(heap, r, n)}) = 1

\* C3: in the output of rank_games every In Progress game precedes every
\* Final game and every Final game precedes every Scheduled game; the first
\* game (and any game of rank 1) is In Progress when the input has an
\* In Progress game, and otherwise Final when the input has a Final game.
C3_TierOrder ==
    pc = "ranked" =>
        /\ \A i, j \in DOMAIN all_games :
              i < j => TierIndex(heap[all_games[i]].status)
                           <= TierIndex(heap[all_games[j]].status)
        /\ \A i \in DOMAIN all_games : TierIndex(heap[all_games[i]].status) <= 3
        /\ InputHas("In Progress") =>
              /\ all_games # <<>>
              /\ heap[all_games[1]].status = "In Progress"
              /\ \A r \in DOMAIN heap : HasRank(heap, r, 1) => heap[r].status = "In Progress"
        /\ (~InputHas("In Progress") /\ InputHas("Final")) =>
              /\ all_games # <<>>
              /\ heap[all_games[1]].status = "Final"
              /\ \A r \in DOMAIN heap : HasRank(heap, r, 1) => heap[r].status = "Final"

C3_Witness ==
    /\ pc = "ranked"
    /\ Len(all_games) >= 3
    /\ \A st \in {"In Progress", "Final", "Scheduled"} :
          \E i \in DOMAIN all_games : heap[all_games[i]].status = st
    /\ \E r \in DOMAIN heap : heap[r].status = "Final" /\ r < all_games[1]

\* C4: in the output of rank_games the Scheduled games are in non-decreasing
\* order of start_time_utc, and the members of the In Progress and Final
\* tiers other than the featured (first) game keep the relative order they
\* had in the input.
C4_ScheduledSortedOthersKeepOrder ==
    pc = "ranked" =>
        /\ \A i, j \in DOMAIN all_games :
              (i < j /\ heap[all_games[i]].status = "Scheduled"
                     /\ heap[all_games[j]].status = "Scheduled")
                  => heap[all_games[i]].start_time_utc <= heap[all_games[j]].start_time_utc
        /\ \A i, j \in DOMAIN all_games :
              (1 < i /\ i < j
                 /\ heap[all_games[i]].status = heap[all_games[j]].status
                 /\ heap[all_games[i]].status \in {"In Progress", "Final"})
                  => all_games[i] < all_games[j]

C4_Witness ==
    /\ pc = "ranked"
    /\ \E i, j \in DOMAIN all_games :
          /\ i < j
          /\ heap[all_games[i]].status = "Scheduled"
          /\ heap[all_games[j]].status = "Scheduled"
          /\ heap[all_games[i]].start_time_utc < heap[all_games[j]].start_time_utc
          /\ all_games[i] > all_games[j]
    /\ Len(all_games) >= 2
    /\ heap[all_games[2]].status = heap[all_games[1]].status
    /\ all_games[2] < all_games[1]

\* C5: the featured choice is a free choice over the whole top non-empty
\* tier: on the same input, the games that rank_games can put first are
\* exactly the members of the In Progress tier, or of the Final tier when no
\* game is In Progress.
C5_EveryTopTierMemberCanBeFeatured ==
    (pc = "rank_in" /\ TopTier(heap, all_games) # <<>>)
        => {rank_games(heap, all_games, c).ranked[1] : c \in Choices(heap, all_games)}
               = Range(TopTier(heap, all_games))

C5_Witness ==
    /\ pc = "ranked"
    /\ Cardinality({r \in DOMAIN heap : heap[r].status = "In Progress"}) >= 3
    /\ \E r \in DOMAIN heap :
          /\ heap[r].status = "In Progress"
          /\ heap[r] # heap[all_games[1]]
          /\ r < all_games[1]

(***************************************************************************)
(* Claims about parse_game (under SpecParse).                              *)
(***************************************************************************)
\* the nodes a score does not depend on are usable
OnlyScoresVary(e) ==
    /\ e.comps = "present"
    /\ e.status # "null"
    /\ e.hteam # "null"
    /\ e.venue # "null"

\* C6: for any upstream score value in {absent, null, "", "7", 7, "abc"},
\* parse_game produces team scores and scores.total that are integers >= 0;
\* the non-numeric value falls back to 0 instead of raising.
C6_ScoresAreNonNegativeIntegers ==
    (pc = "parsed" /\ OnlyScoresVary(event)) =>
        /\ ~result.raised
        /\ result.game.home_team.score \in Nat
        /\ result.game.away_team.score \in Nat
        /\ result.game.scores.total.home \in Nat
        /\ result.game.scores.total.away \in Nat

\* every departure of the event from a complete record is an optional
\* field or container that is absent, empty or null
OnlyMissingFields(e) ==
    /\ e.hscore # ScoreStr("abc")
    /\ e.ascore # ScoreStr("abc")

\* C7: parse_game never raises and returns a Game for an event in which any
\* subset of the optional fields and containers is absent, empty or null
\* (an empty competitions list, a null status, team or venue mapping, a
\* linescore entry without a value).
C7_ParseGameNeverRaises ==
    (pc = "parsed" /\ OnlyMissingFields(event)) =>
        /\ ~result.raised
        /\ Has(result.game, "status")
        /\ result.game.status \in Statuses

(***************************************************************************)
(* Claims about enrich_featured_game_full (under SpecEnrich).              *)
(***************************************************************************)
\* C8: enrich_featured_game_full with a null or empty summary returns the
\* same Game, every field unchanged and no field added.
C8_FalsySummaryLeavesGameUnchanged ==
    (pc = "enriched" /\ summary.kind \in {"null", "empty"}) =>
        /\ heap = before
        /\ DOMAIN heap[1] = DOMAIN before[1]

C8_Witness ==
    /\ pc = "enriched"
    /\ summary.kind = "empty"
    /\ heap[1].situation # "None"
    /\ heap[1].odds # "None"

\* C9: enrichment is strictly additive: every field the Game had before
\* enrich_featured_game_full is still there with the same value afterwards,
\* except situation when the summary supplies a situation.
C9_EnrichmentIsAdditive ==
    pc = "enriched" =>
        \A k \in DOMAIN before[1] :
            /\ Has(heap[1], k)
            /\ \/ heap[1][k] = before[1][k]
               \/ (k = "situation" /\ summary.situation)

(***************************************************************************)
(* Claims about the run (under Spec).                                      *)
(***************************************************************************)
\* C10: in every run at most one game is enriched and it is the game with
\* display_rank 1: no game of rank >= 2 is passed to the enricher, and no
\* entry of the output other than games[0] carries enrichment fields.
C10_OnlyRankOneIsEnriched ==
    /\ Len(enriched_refs) <= 1
    /\ \A i \in DOMAIN enriched_refs : HasRank(heap, enriched_refs[i], 1)
    /\ \A k \in DOMAIN output_games :
          k >= 2 => (DOMAIN output_games[k]) \cap EnrichmentKeys = {}

\* C11: when the scoreboard fetch fails or returns nothing, the run aborts:
\* no game is parsed or ranked, no summary is fetched and no output file is
\* written, and the run takes no further step.
C11_FailedScoreboardAbortsRun ==
    scoreboard.kind \in {"none", "empty"} =>
        /\ pc = "aborted"
        /\ heap = <<>>
        /\ all_games = <<>>
        /\ summary = NoSummary
        /\ fetched_ids = <<>>
        /\ enriched_refs = <<>>
        /\ output_games = <<>>
        /\ written = <<>>
        /\ ~ENABLED Next

C11_Witness ==
    /\ pc = "aborted"
    /\ scoreboard.kind = "none"

\* C12: when the scoreboard fetch succeeds but the summary fetch fails, the
\* run still reaches the write step: the document is written with the ranked
\* games in rank order, and games[0] is the featured game, not enriched, with
\* the fields the Normalizer gave it.
C12_FailedSummaryStillWrites ==
    summary.kind = "null" =>
        /\ pc \in {"enrich", "shape", "write", "done"}
        /\ pc # "done" => ENABLED Next
        /\ enriched_refs = <<>>
        /\ pc = "done" =>
              /\ Len(written) = 2
              /\ \A d \in DOMAIN written : written[d].games = output_games
              /\ Len(output_games) = Min(Len(all_games), MaxOutputGames)
              /\ \A k \in DOMAIN output_games :
                    /\ output_games[k].display_rank = heap[all_games[k]].display_rank
                    /\ output_games[k].status = heap[all_games[k]].status
              /\ output_games[1] = heap[all_games[1]]
              /\ (DOMAIN output_games[1]) \cap EnrichmentKeys = {}
              /\ Pop(output_games[1], "display_rank")
                     = GameOf(scoreboard.events[all_games[1]])

C12_Witness ==
    /\ pc = "done"
    /\ summary.kind = "null"
    /\ Len(output_games) >= 2
    /\ written # <<>>

\* The order of the steps of a run, read off the record each step leaves:
\* games exist only after a scoreboard document was fetched, the summary is
\* fetched at most once and only when every listed game has a display_rank,
\* for the id of the first listed game, the enricher runs only after the
\* summary fetch, and the files hold exactly the shaped games.
C13_OrderOfSteps ==
    /\ heap # <<>> => scoreboard.kind = "doc"
    /\ Len(fetched_ids) <= 1
    /\ fetched_ids # <<>> =>
          /\ \A i \in DOMAIN all_games : Has(heap[all_games[i]], "display_rank")
          /\ fetched_ids[1] = heap[all_games[1]].id
    /\ enriched_refs # <<>> => fetched_ids # <<>>
    /\ output_games # <<>> => pc \in {"write", "done"}
    /\ written # <<>> =>
          /\ pc = "done"
          /\ Len(output_games) = Min(Len(all_games), MaxOutputGames)
          /\ \A d \in DOMAIN written : written[d].games = output_games

\* C13: the steps of a run occur in the order fetch scoreboard, parse,
\* rank, fetch summary, enrich, shape, write; the summary fetch is issued
\* at most once, only after every game has its display_rank, only for the
\* id of the game of display_rank 1, and the write follows the shaping.
C13_StepsInOrderSummaryForRankOne ==
    /\ C13_OrderOfSteps
    /\ \A f \in DOMAIN fetched_ids :
          \E i \in DOMAIN all_games :
              /\ HasRank(heap, all_games[i], 1)
              /\ heap[all_games[i]].id = fetched_ids[f]

\* C14: the written games are the first min(4, N) ranked games in rank
\* order, games[i].display_rank = i + 1 (positions here count from 1);
\* games[0] has the featured shape and every other entry the minimal one.
C14_OutputIsTopFourInRankOrder ==
    pc = "done" =>
        /\ Len(output_games) = Min(Len(all_games), MaxOutputGames)
        /\ \A k \in DOMAIN output_games :
              /\ Has(output_games[k], "display_rank")
              /\ output_games[k].display_rank = k
              /\ output_games[k] = IF k = 1 THEN SlimFeatured(heap[all_games[k]])
                                   ELSE SlimOther(heap[all_games[k]])

\* C15: every game, at any point of the run and in the output, that has a
\* situation other than None has the status In Progress, also after the
\* enricher has run.
C15_SituationImpliesInProgress ==
    /\ \A r \in DOMAIN heap :
          (Has(heap[r], "situation") /\ heap[r].situation # "None")
              => heap[r].status = "In Progress"
    /\ \A k \in DOMAIN output_games :
          (Has(output_games[k], "situation") /\ output_games[k].situation # "None")
              => output_games[k].status = "In Progress"

\* C17: the period list of a parsed game pairs the home and away
\* linescores index-wise: it is as long as the shorter of the two lists
\* (empty when either is absent), its entry at 0-based index i has number
\* i + 1 and the points of the two entries at that index, and its type is
\* Overtime exactly when that index is at least 4.
C17_PeriodsPairLinescoresByIndex ==
    (pc = "parsed" /\ ~result.raised) =>
        LET c == Competition(event)
            periods == result.game.scores.periods
        IN  /\ Len(periods) = IF c.hlen <= c.alen THEN c.hlen ELSE c.alen
            /\ (c.hlen = 0 \/ c.alen = 0) => periods = <<>>
            /\ \A k \in DOMAIN periods :
                  /\ periods[k].number = k
                  /\ periods[k].type \in {"Overtime", "Regulation"}
                  /\ periods[k].type = "Overtime" <=> k - 1 >= 4
                  /\ periods[k].away.points = k
                  /\ periods[k].home.points =
                         IF c.valueless /\ k = 1 THEN 0 ELSE 3 + k

C17_Witness ==
    /\ pc = "parsed"
    /\ ~result.raised
    /\ event.hlen = 6
    /\ event.alen = 5
    /\ event.valueless
    /\ Len(result.game.scores.periods) = 5
    /\ result.game.scores.periods[5].type = "Overtime"
    /\ result.game.scores.periods[4].type = "Regulation"

\* C18 as stated: the state code pre gives Scheduled, in gives In Progress,
\* post gives Final, every other state code, an absent one included, gives
\* Unknown, and the result is one of the four status values.
C18_AbsentStateCodeIsUnknown ==
    (pc = "parsed" /\ ~result.raised) =>
        LET node == Competition(event).status
            status == result.game.status
        IN  /\ status \in {"Scheduled", "In Progress", "Final", "Unknown"}
            /\ node = "pre" => status = "Scheduled"
            /\ node = "in" => status = "In Progress"
            /\ node = "post" => status = "Final"
            /\ node \notin {"pre", "in", "post"} => status = "Unknown"

\* C18: the state code pre gives Scheduled, in gives In Progress, post
\* gives Final, and every other state code that is present (a null one
\* included) gives Unknown; an absent state code (no status, no type or no
\* state key) is read as pre and gives Scheduled; the result is one of the
\* four status values.
C18_StatusMappingAbsentIsScheduled ==
    (pc = "parsed" /\ ~result.raised) =>
        LET node == Competition(event).status
            status == result.game.status
        IN  /\ status \in {"Scheduled", "In Progress", "Final", "Unknown"}
            /\ node = "pre" => status = "Scheduled"
            /\ node = "in" => status = "In Progress"
            /\ node = "post" => status = "Final"
            /\ node \in {"halftime", "nullstate"} => status = "Unknown"
            /\ node \in {"absent", "nostate"} => status = "Scheduled"

C18_Witness ==
    /\ pc = "parsed"
    /\ ~result.raised
    /\ event.comps = "present"
    /\ event.status = "nostate"
    /\ result.game.status = "Scheduled"

\* C19: when the summary supplies a situation the enricher replaces the
\* game's situation with the summary-derived one; when the summary is
\* non-empty but has no situation, the situation set by parse_game stays.
C19_SituationReplacedOnlyWhenSupplied ==
    (pc = "enriched" /\ summary.kind = "doc") =>
        /\ Has(heap[1], "team_stats")
        /\ summary.situation => heap[1].situation = "summary situation"
        /\ ~summary.situation => heap[1].situation = before[1].situation

C19_Witness ==
    /\ pc = "enriched"
    /\ summary.kind = "doc"
    /\ ~summary.situation
    /\ Has(heap[1], "team_stats")
    /\ before[1].situation = "scoreboard situation"
    /\ heap[1].situation = "scoreboard situation"

\* C20: for a non-featured game slim_game returns exactly status,
\* start_time_pacific, away_team, home_team, scores, clock, period and
\* display_rank, plus venue (name, city, state) and broadcasters (at most
\* one entry, the first, name only) exactly when the status is Scheduled or
\* In Progress; each team keeps only abbreviation, short_name, record and
\* score, and the input game is not modified.
C20_MinimalTierWhitelist ==
    pc = "slimmed" =>
        LET game == before[1]
            slim == output_games[1]
            live == game.status \in {"Scheduled", "In Progress"}
            base == {"status", "start_time_pacific", "away_team", "home_team",
                     "scores", "clock", "period", "display_rank"}
            teamKeys == {"abbreviation", "short_name", "record", "score"}
        IN  /\ DOMAIN slim = base \cup (IF live THEN {"venue", "broadcasters"} ELSE {})
            /\ \A k \in {"status", "start_time_pacific", "clock", "period"} :
                  slim[k] = game[k]
            /\ slim.display_rank =
                  IF Has(game, "display_rank") THEN game.display_rank ELSE 0
            /\ \A t \in {"away_team", "home_team"} :
                  /\ DOMAIN slim[t] = teamKeys
                  /\ \A k \in teamKeys : slim[t][k] = game[t][k]
            /\ DOMAIN slim.scores = {"periods", "total"}
            /\ slim.scores.total = game.scores.total
            /\ Len(slim.scores.periods) = Len(game.scores.periods)
            /\ \A i \in DOMAIN slim.scores.periods :
                  /\ DOMAIN slim.scores.periods[i] = {"number", "away", "home"}
                  /\ \A k \in {"number", "away", "home"} :
                        slim.scores.periods[i][k] = game.scores.periods[i][k]
            /\ live =>
                  /\ DOMAIN slim.venue = {"name", "city", "state"}
                  /\ \A k \in {"name", "city", "state"} : slim.venue[k] = game.venue[k]
                  /\ Len(slim.broadcasters) = IF game.broadcasters = <<>> THEN 0 ELSE 1
                  /\ \A i \in DOMAIN slim.broadcasters :
                        /\ DOMAIN slim.broadcasters[i] = {"name"}
                        /\ slim.broadcasters[i].name = game.broadcasters[1].name
            /\ heap = before

C20_Witness ==
    /\ pc = "slimmed"
    /\ before[1].status = "In Progress"
    /\ Len(before[1].broadcasters) >= 2
    /\ Has(before[1], "team_stats")
    /\ Has(before[1], "display_rank")
    /\ Len(output_games[1].broadcasters) = 1
    /\ Has(output_games[1], "venue")
    /\ heap = before

====
